---- MODULE Spec2Model ----
(***************************************************************************)
(* The tobacco curing controller of this repository, in its two variants:  *)
(*   rpi4_tobacco_curing.py : control loop main() plus the Flask handlers  *)
(*                            that run in a second thread on the same      *)
(*                            module globals (specification Spec; main()   *)
(*                            alone is SpecLoop, SpecRamp is main() alone  *)
(*                            after a cool first reading, and SpecDebounce *)
(*                            is main() with its samples closer together); *)
(*   222.py                 : the single-threaded variant with a heater    *)
(*                            relay (specification Spec222).               *)
(* SpecCycle and SpecCycle222 are the two loops left alone for ever, with  *)
(* weak fairness of the loop.                                              *)
(* Time is counted in tenths of a second (0.2 s = 2, 0.5 s = 5,            *)
(* 3600 s = 36000).  Temperatures and humidities are whole degrees and     *)
(* percent: the code only adds 1, adds whole hours, adds or subtracts 2    *)
(* and compares, which is exact on them.                                   *)
(***************************************************************************)
EXTENDS Integers, Sequences, FiniteSets

(* ----------------------------- program constants ----------------------- *)

\* time.sleep(0.5) at the end of every loop iteration
SLEEP == 5
\* the 0.2 of every button guard
DEBOUNCE == 2
\* the 3600 of duration_hours * 3600 and of int(elapsed / 3600)
HOUR == 36000
\* the 2 of auto_target_temp - 2 and auto_target_temp + 2
DEADBAND == 2
\* Python's None, for a reading the sensor did not deliver
None == -1

\* CURING_STAGES of rpi4_tobacco_curing.py, in dictionary order
CURING_STAGES ==
  << [name |-> "YELLOWING", temp |-> 35, min_temp |-> 27, max_temp |-> 40,
      humidity |-> 85, duration_hours |-> 48, ramp_fan_on |-> FALSE],
     [name |-> "LEAF_DRYING", temp |-> 50, min_temp |-> 45, max_temp |-> 55,
      humidity |-> 70, duration_hours |-> 24, ramp_fan_on |-> TRUE],
     [name |-> "MIDRIB_DRYING", temp |-> 65, min_temp |-> 60, max_temp |-> 70,
      humidity |-> 50, duration_hours |-> 24, ramp_fan_on |-> TRUE],
     [name |-> "ORDERING", temp |-> 25, min_temp |-> 23, max_temp |-> 27,
      humidity |-> 80, duration_hours |-> 12, ramp_fan_on |-> FALSE] >>

\* CURING_STAGES of 222.py
CURING_STAGES_222 ==
  << [name |-> "YELLOWING", temp |-> 35, humidity |-> 85, duration_hours |-> 48],
     [name |-> "LEAF_DRYING", temp |-> 46, humidity |-> 70, duration_hours |-> 24],
     [name |-> "MIDRIB_DRYING", temp |-> 65, humidity |-> 50, duration_hours |-> 24],
     [name |-> "ORDERING", temp |-> 25, humidity |-> 80, duration_hours |-> 12] >>

\* len(stage_keys)
N == Len(CURING_STAGES)

\* setpoints = CURING_STAGES[stage_keys[i]], stage index i counted from 0
Setpoints(i) == CURING_STAGES[i + 1]
Setpoints222(i) == CURING_STAGES_222[i + 1]

(* ----------------------------- bounds of the model --------------------- *)

\* the clock value at which the loop is entered (anything above DEBOUNCE)
StartTime == 10
\* asserted button samples and remote requests followed in one run
MaxInputs == 2
\* SpecDebounce follows the button guards for this many tenths of a second
MaxPace == 4
\* SpecCycle follows a stage for this many multiples of CycleStep
MaxSteps == 5

\* readings the sensor may deliver: the entry temperatures of the two ramp
\* examples, and one reading between a target of 46 and its upper band edge
Temps == {40, 45, 47}
Hums == {70}
\* the clock values at which the loop is observed: the start and the next
\* iteration, one full hour, ten hours (the example of the ramp reaching its
\* maximum), the iteration after the 24 hours of LEAF_DRYING and
\* MIDRIB_DRYING (24 hours sharp for a stage entered at the second
\* iteration), and 48 hours
Instants ==
  { StartTime + d :
      d \in {0, SLEEP, HOUR, 10 * HOUR, 24 * HOUR + SLEEP, 48 * HOUR} }
\* first readings of SpecRamp: YELLOWING's configured temp, which leaves
\* five hourly steps before max_temp
FirstTemps == {Setpoints(0).temp}
\* the spacing of the clock values of SpecCycle: the duration of ORDERING,
\* the shortest of the four, which divides the three others
CycleStep == Setpoints(N - 1).duration_hours * HOUR
\* the times since the entry of a stage at which SpecCycle observes the
\* loop: every multiple of CycleStep (a duration is met sharp, where line
\* 465 does not advance yet) and the iteration after it
CycleElapsed ==
  { h * CycleStep + s : h \in 0 .. MaxSteps, s \in {0, SLEEP} }
\* readings and observed clock values of Spec222: its shortest route to an
\* automatic advance is the 48 hours of YELLOWING
Temps222 == {32, 34, 35, 40}
Hums222 == {70, 90}
Instants222 ==
  { StartTime + d : d \in {0, SLEEP, 48 * HOUR, 48 * HOUR + SLEEP} }
\* sample spacings of SpecDebounce: one below DEBOUNCE and one above it
PaceSteps == {DEBOUNCE - 1, DEBOUNCE + 1}

VARIABLES
  \* module globals
  current_mode, current_stage_index, stage_start_time, stage_start_temp,
  auto_target_temp, fan_on, dehumidifier_on, heater_on, buzzer_on,
  temperature, humidity,
  \* locals of main()
  last_mode_press, last_stage_press, last_fan_press, last_dehumidifier_press,
  mode_button_pressed, stage_button_pressed, fan_button_pressed,
  dehumidifier_button_pressed,
  stage_name,      \* index of the stage whose setpoints the iteration holds
  loaded_mode,     \* current_mode as loaded by line 440, before the store
  loaded_stage,    \* current_stage_index as loaded by line 446 / 466
  read_result,     \* how the iteration's sensor read ended
  pc,              \* the statement main() executes next
  \* the GPIO output levels, as logical relay states
  relay,
  \* the Flask thread: the handler in flight and the global it has loaded
  hpc, h_mode, h_stage,
  \* time.time()
  now,
  \* the asserted button samples and remote requests so far
  inputs,
  \* history: the target of the last AUTO computation made in the present
  \* occupancy of the stage, None if there was none.  A computation during
  \* which set_stage moved the stage index belongs to the occupancy it
  \* started in, and is not recorded for the new one.
  occ_target

globals == << current_mode, current_stage_index, stage_start_time,
              stage_start_temp, auto_target_temp, fan_on, dehumidifier_on,
              heater_on, buzzer_on, temperature, humidity >>
presses == << last_mode_press, last_stage_press, last_fan_press,
              last_dehumidifier_press >>
buttons == << mode_button_pressed, stage_button_pressed, fan_button_pressed,
              dehumidifier_button_pressed >>
locals == << stage_name, loaded_mode, loaded_stage, read_result >>
handler == << hpc, h_mode, h_stage >>
vars == << globals, presses, buttons, locals, pc, relay, handler, now,
           inputs, occ_target >>

(* ----------------------------- pure helpers ---------------------------- *)

\* "MANUAL" if current_mode == "AUTO" else "AUTO"
Toggle(m) == IF m = "AUTO" THEN "MANUAL" ELSE "AUTO"

\* mutant: the last stage is terminal
NextStage_Terminal(i) == IF i + 1 < N THEN i + 1 ELSE i

\* mutant: the advance without the wrap to stage 0
NextStage_NoWrap(i) == i + 1

\* (current_stage_index + 1) % len(stage_keys)
NextStage(i) == (i + 1) % N

\* mutant: a button guard without the time test
Accepted_NoDebounce(pressed, t, last) == pressed

\* pressed and (time.time() - last_press > 0.2)
Accepted(pressed, t, last) == pressed /\ t - last > DEBOUNCE

\* time.time() - stage_start_time > duration_hours * 3600
DurationOver(t, start, hours) == t - start > hours * HOUR

\* mutant: the ramp without its first degree
RampTarget_NoStep(start_temp, start, t) == start_temp + ((t - start) \div HOUR)

\* mutant: the ramp running downwards
RampTarget_Down(start_temp, start, t) ==
  start_temp + 1 - ((t - start) \div HOUR)

\* stage_start_temp + 1 + int((time.time() - stage_start_time) / 3600)
RampTarget(start_temp, start, t) == start_temp + 1 + ((t - start) \div HOUR)

\* mutant: a two-point controller that forgets the relay's state inside
\* the band
Hysteresis_NoMemory(prev, temp, target) == temp < target - DEADBAND

\* the if / elif of lines 488-491 and 497-502: the new state of a relay
\* that had state prev
Hysteresis(prev, temp, target) ==
  IF temp < target - DEADBAND THEN TRUE
  ELSE IF temp > target + DEADBAND THEN FALSE
  ELSE prev

\* mutant: the test also looks at the reading stored before the read
Valid_Stale(t, h) ==
  t # None /\ h # None /\ temperature # None /\ humidity # None

\* temperature is not None and humidity is not None, of the values just read
Valid(t, h) == t # None /\ h # None

\* not (setpoints["min_temp"] <= temperature <= setpoints["max_temp"])
Alarm(temp, sp) == ~(sp.min_temp <= temp /\ temp <= sp.max_temp)

\* 222.py: heater_on = temperature < setpoints["temp"]
HeaterCommand(temp, sp) == temp < sp.temp

\* 222.py: dehumidifier_on = humidity > setpoints["humidity"]
DehumidifierCommand(hum, sp) == hum > sp.humidity

\* 222.py: fan_on = dehumidifier_on or (stage_name == "LEAF_DRYING")
FanCommand(dehum, sp) == dehum \/ sp.name = "LEAF_DRYING"

(* ----------------------------- initial state --------------------------- *)

\* The state in which main() enters its while loop: the module-level
\* assignments, then lines 404-426 (the first reading is waited for, so it
\* is not None).
Init ==
  /\ current_mode = "AUTO"
  /\ current_stage_index = 0
  /\ stage_start_time = StartTime
  /\ temperature \in Temps
  /\ humidity \in Hums
  /\ stage_start_temp = temperature
  /\ auto_target_temp = stage_start_temp + 1
  /\ fan_on = FALSE
  /\ dehumidifier_on = FALSE
  /\ heater_on = FALSE
  /\ buzzer_on = FALSE
  /\ last_mode_press = 0
  /\ last_stage_press = 0
  /\ last_fan_press = 0
  /\ last_dehumidifier_press = 0
  /\ mode_button_pressed = FALSE
  /\ stage_button_pressed = FALSE
  /\ fan_button_pressed = FALSE
  /\ dehumidifier_button_pressed = FALSE
  /\ stage_name = 0
  /\ loaded_mode = "AUTO"
  /\ loaded_stage = 0
  /\ read_result = "pending"
  /\ pc = "buttons"
  /\ relay = [fan |-> FALSE, dehumidifier |-> FALSE, heater |-> FALSE,
              buzzer |-> FALSE]
  /\ hpc = "idle"
  /\ h_mode = "AUTO"
  /\ h_stage = 0
  /\ now = StartTime
  /\ inputs = 0
  /\ occ_target = None

(* ----------------- rpi4_tobacco_curing.py: the loop of main() ---------- *)

\* the number of asserted samples among four button levels
Asserted(m, s, f, d) ==
  (IF m THEN 1 ELSE 0) + (IF s THEN 1 ELSE 0) + (IF f THEN 1 ELSE 0)
    + (IF d THEN 1 ELSE 0)

\* lines 432-435: the four GPIO.input() samples
ReadButtons ==
  /\ pc = "buttons"
  /\ \E m, s, f, d \in BOOLEAN :
       /\ inputs + Asserted(m, s, f, d) <= MaxInputs
       /\ mode_button_pressed' = m
       /\ stage_button_pressed' = s
       /\ fan_button_pressed' = f
       /\ dehumidifier_button_pressed' = d
       /\ inputs' = inputs + Asserted(m, s, f, d)
  /\ pc' = "mode_switch"
  /\ UNCHANGED << globals, presses, locals, relay, handler, now, occ_target >>

\* lines 438-440, up to the load of current_mode
ModeSwitch ==
  /\ pc = "mode_switch"
  /\ IF Accepted(mode_button_pressed, now, last_mode_press)
       THEN /\ last_mode_press' = now
            /\ loaded_mode' = current_mode
            /\ pc' = "mode_store"
       ELSE /\ UNCHANGED << last_mode_press, loaded_mode >>
            /\ pc' = "stage_adv"
  /\ mode_button_pressed' = FALSE
  /\ UNCHANGED << globals, last_stage_press, last_fan_press,
                  last_dehumidifier_press, stage_button_pressed,
                  fan_button_pressed, dehumidifier_button_pressed,
                  stage_name, loaded_stage, read_result, relay, handler, now,
                  inputs, occ_target >>

\* line 440: the store into current_mode
ModeStore ==
  /\ pc = "mode_store"
  /\ current_mode' = Toggle(loaded_mode)
  /\ loaded_mode' = "AUTO"
  /\ pc' = "stage_adv"
  /\ UNCHANGED << current_stage_index, stage_start_time, stage_start_temp,
                  auto_target_temp, fan_on, dehumidifier_on, heater_on,
                  buzzer_on, temperature, humidity, presses, buttons,
                  stage_name, loaded_stage, read_result, relay, handler, now,
                  inputs, occ_target >>

\* lines 444-446, up to the load of current_stage_index
StageAdvance ==
  /\ pc = "stage_adv"
  /\ IF Accepted(stage_button_pressed, now, last_stage_press)
       THEN /\ last_stage_press' = now
            /\ loaded_stage' = current_stage_index
            /\ pc' = "stage_store"
       ELSE /\ UNCHANGED << last_stage_press, loaded_stage >>
            /\ pc' = "sensor"
  /\ stage_button_pressed' = FALSE
  /\ UNCHANGED << globals, last_mode_press, last_fan_press,
                  last_dehumidifier_press, mode_button_pressed,
                  fan_button_pressed, dehumidifier_button_pressed,
                  stage_name, loaded_mode, read_result, relay, handler, now,
                  inputs, occ_target >>

\* lines 446-451: the store into current_stage_index and the bookkeeping
StageStore ==
  /\ pc = "stage_store"
  /\ current_stage_index' = NextStage(loaded_stage)
  /\ stage_start_time' = now
  /\ stage_name' = current_stage_index'
  /\ stage_start_temp' =
       IF current_mode = "AUTO"
         THEN IF temperature # None THEN temperature
              ELSE Setpoints(stage_name').min_temp
         ELSE stage_start_temp
  /\ loaded_stage' = 0
  /\ occ_target' = None
  /\ pc' = "sensor"
  /\ UNCHANGED << current_mode, auto_target_temp, fan_on, dehumidifier_on,
                  heater_on, buzzer_on, temperature, humidity, presses,
                  buttons, loaded_mode, read_result, relay, handler, now,
                  inputs >>

\* what is left of the iteration when the read gave nothing: line 458 is
\* false, or the except clause of line 532 ran
SkipIteration ==
  /\ fan_button_pressed' = FALSE
  /\ dehumidifier_button_pressed' = FALSE
  /\ pc' = "sleep"

\* lines 456-460: dht_device.temperature, dht_device.humidity.  Either
\* property may raise RuntimeError, and either may be None.
SensorRead ==
  /\ pc = "sensor"
  /\ \/ \* line 456 raises
        /\ read_result' = "error"
        /\ SkipIteration
        /\ UNCHANGED << temperature, humidity, stage_name >>
     \/ \* line 456 returns, line 457 raises
        /\ temperature' \in Temps \cup {None}
        /\ read_result' = "error"
        /\ SkipIteration
        /\ UNCHANGED << humidity, stage_name >>
     \/ \* both return: line 458 decides
        /\ temperature' \in Temps \cup {None}
        /\ humidity' \in Hums \cup {None}
        /\ IF Valid(temperature', humidity')
             THEN /\ read_result' = "ok"
                  /\ stage_name' = current_stage_index
                  /\ pc' = "control"
                  /\ UNCHANGED << fan_button_pressed,
                                  dehumidifier_button_pressed >>
             ELSE /\ read_result' = "none"
                  /\ SkipIteration
                  /\ UNCHANGED stage_name
  /\ UNCHANGED << current_mode, current_stage_index, stage_start_time,
                  stage_start_temp, auto_target_temp, fan_on,
                  dehumidifier_on, heater_on, buzzer_on, presses,
                  mode_button_pressed, stage_button_pressed, loaded_mode,
                  loaded_stage, relay, handler, now, inputs, occ_target >>

\* lines 463-466: the mode test, the duration test and the load of
\* current_stage_index
Control ==
  /\ pc = "control"
  /\ IF current_mode = "AUTO"
       THEN /\ IF DurationOver(now, stage_start_time,
                               Setpoints(stage_name).duration_hours)
                 THEN /\ loaded_stage' = current_stage_index
                      /\ pc' = "auto_store"
                 ELSE /\ UNCHANGED loaded_stage
                      /\ pc' = "target"
            /\ fan_button_pressed' = FALSE
            /\ dehumidifier_button_pressed' = FALSE
       ELSE /\ pc' = "manual"
            /\ UNCHANGED << loaded_stage, fan_button_pressed,
                            dehumidifier_button_pressed >>
  /\ UNCHANGED << globals, presses, mode_button_pressed,
                  stage_button_pressed, stage_name, loaded_mode, read_result,
                  relay, handler, now, inputs, occ_target >>

\* lines 466-473: the automatic advance
AutoStore ==
  /\ pc = "auto_store"
  /\ current_stage_index' = NextStage(loaded_stage)
  /\ stage_start_time' = now
  /\ stage_name' = current_stage_index'
  /\ stage_start_temp' =
       IF temperature # None THEN temperature
       ELSE Setpoints(stage_name').min_temp
  /\ loaded_stage' = 0
  /\ occ_target' = None
  /\ pc' = "target"
  /\ UNCHANGED << current_mode, auto_target_temp, fan_on, dehumidifier_on,
                  heater_on, buzzer_on, temperature, humidity, presses,
                  buttons, loaded_mode, read_result, relay, handler, now,
                  inputs >>

\* lines 477-480: elapsed_hours and the first store into auto_target_temp
Target ==
  /\ pc = "target"
  /\ auto_target_temp' = RampTarget(stage_start_temp, stage_start_time, now)
  /\ pc' = "phase"
  /\ UNCHANGED << current_mode, current_stage_index, stage_start_time,
                  stage_start_temp, fan_on, dehumidifier_on, heater_on,
                  buzzer_on, temperature, humidity, presses, buttons, locals,
                  relay, handler, now, inputs, occ_target >>

\* lines 483-502: ramp-up phase or maintenance phase
Phase ==
  /\ pc = "phase"
  /\ LET sp == Setpoints(stage_name) IN
       IF auto_target_temp < sp.max_temp
         THEN /\ fan_on' = sp.ramp_fan_on
              /\ dehumidifier_on' =
                   Hysteresis(dehumidifier_on, temperature, auto_target_temp)
              /\ UNCHANGED auto_target_temp
         ELSE /\ auto_target_temp' = sp.max_temp
              /\ dehumidifier_on' =
                   Hysteresis(dehumidifier_on, temperature, sp.max_temp)
              /\ fan_on' = Hysteresis(fan_on, temperature, sp.max_temp)
  /\ occ_target' =
       IF current_stage_index = stage_name THEN auto_target_temp' ELSE None
  /\ pc' = "relays"
  /\ UNCHANGED << current_mode, current_stage_index, stage_start_time,
                  stage_start_temp, heater_on, buzzer_on, temperature,
                  humidity, presses, buttons, locals, relay, handler, now,
                  inputs >>

\* lines 504-510: the fan and dehumidifier buttons, MANUAL mode only
Manual ==
  /\ pc = "manual"
  /\ IF Accepted(fan_button_pressed, now, last_fan_press)
       THEN last_fan_press' = now /\ fan_on' = ~fan_on
       ELSE UNCHANGED << last_fan_press, fan_on >>
  /\ IF Accepted(dehumidifier_button_pressed, now, last_dehumidifier_press)
       THEN last_dehumidifier_press' = now
            /\ dehumidifier_on' = ~dehumidifier_on
       ELSE UNCHANGED << last_dehumidifier_press, dehumidifier_on >>
  /\ fan_button_pressed' = FALSE
  /\ dehumidifier_button_pressed' = FALSE
  /\ pc' = "relays"
  /\ UNCHANGED << current_mode, current_stage_index, stage_start_time,
                  stage_start_temp, auto_target_temp, heater_on, buzzer_on,
                  temperature, humidity, last_mode_press, last_stage_press,
                  mode_button_pressed, stage_button_pressed, locals, relay,
                  handler, now, inputs, occ_target >>

\* lines 513-530: update_relays, the temperature alarm, control_buzzer
UpdateOutputs ==
  /\ pc = "relays"
  /\ buzzer_on' = Alarm(temperature, Setpoints(stage_name))
  /\ relay' = [relay EXCEPT !.fan = fan_on,
                            !.dehumidifier = dehumidifier_on,
                            !.buzzer = buzzer_on']
  /\ pc' = "sleep"
  /\ UNCHANGED << current_mode, current_stage_index, stage_start_time,
                  stage_start_temp, auto_target_temp, fan_on,
                  dehumidifier_on, heater_on, temperature, humidity, presses,
                  buttons, locals, handler, now, inputs, occ_target >>

\* line 535: time.sleep(0.5), which returns after at least 0.5 s
Sleep ==
  /\ pc = "sleep"
  /\ now' \in { t \in Instants : t >= now + SLEEP }
  /\ read_result' = "pending"
  /\ pc' = "buttons"
  /\ UNCHANGED << globals, presses, buttons, stage_name, loaded_mode,
                  loaded_stage, relay, handler, inputs, occ_target >>

(* ----------------- rpi4_tobacco_curing.py: the Flask thread ------------ *)

\* a request arrives while no handler is in flight
Request ==
  /\ hpc = "idle"
  /\ inputs < MaxInputs
  /\ inputs' = inputs + 1

\* set_mode, line 59: the load of current_mode
SetModeLoad ==
  /\ Request
  /\ h_mode' = current_mode
  /\ hpc' = "set_mode"
  /\ UNCHANGED << globals, presses, buttons, locals, pc, relay, h_stage, now,
                  occ_target >>

\* set_mode, line 59: the store
SetModeStore ==
  /\ hpc = "set_mode"
  /\ current_mode' = Toggle(h_mode)
  /\ h_mode' = "AUTO"
  /\ hpc' = "idle"
  /\ UNCHANGED << current_stage_index, stage_start_time, stage_start_temp,
                  auto_target_temp, fan_on, dehumidifier_on, heater_on,
                  buzzer_on, temperature, humidity, presses, buttons, locals,
                  pc, relay, h_stage, now, inputs, occ_target >>

\* set_stage, line 66: the load of current_stage_index
SetStageLoad ==
  /\ Request
  /\ h_stage' = current_stage_index
  /\ hpc' = "set_stage"
  /\ UNCHANGED << globals, presses, buttons, locals, pc, relay, h_mode, now,
                  occ_target >>

\* set_stage, line 66: the store
SetStageStore ==
  /\ hpc = "set_stage"
  /\ current_stage_index' = NextStage(h_stage)
  /\ h_stage' = 0
  /\ hpc' = "idle"
  /\ occ_target' = None
  /\ UNCHANGED << current_mode, stage_start_time, stage_start_temp,
                  auto_target_temp, fan_on, dehumidifier_on, heater_on,
                  buzzer_on, temperature, humidity, presses, buttons, locals,
                  pc, relay, h_mode, now, inputs >>

\* toggle_fan, line 73
ToggleFan ==
  /\ Request
  /\ fan_on' = ~fan_on
  /\ UNCHANGED << current_mode, current_stage_index, stage_start_time,
                  stage_start_temp, auto_target_temp, dehumidifier_on,
                  heater_on, buzzer_on, temperature, humidity, presses,
                  buttons, locals, pc, relay, handler, now, occ_target >>

\* toggle_dehumidifier, line 80
ToggleDehumidifier ==
  /\ Request
  /\ dehumidifier_on' = ~dehumidifier_on
  /\ UNCHANGED << current_mode, current_stage_index, stage_start_time,
                  stage_start_temp, auto_target_temp, fan_on, heater_on,
                  buzzer_on, temperature, humidity, presses, buttons, locals,
                  pc, relay, handler, now, occ_target >>

\* get_status, lines 34-53: the record GET /api/status answers with
get_status ==
  LET setpoints == Setpoints(current_stage_index) IN
    [ mode |-> current_mode,
      stage |-> setpoints.name,
      temperature |-> temperature,
      humidity |-> humidity,
      target_temp |-> IF current_mode = "AUTO" THEN auto_target_temp
                      ELSE setpoints.temp,
      max_temp |-> setpoints.max_temp,
      fan_on |-> fan_on,
      dehumidifier_on |-> dehumidifier_on,
      fan_on_2 |-> fan_on,
      dehumidifier_on_2 |-> dehumidifier_on,
      buzzer_on |-> buzzer_on ]

Loop ==
  \/ ReadButtons \/ ModeSwitch \/ ModeStore \/ StageAdvance \/ StageStore
  \/ SensorRead \/ Control \/ AutoStore \/ Target \/ Phase \/ Manual
  \/ UpdateOutputs

Flask ==
  \/ SetModeLoad \/ SetModeStore \/ SetStageLoad \/ SetStageStore
  \/ ToggleFan \/ ToggleDehumidifier

Next == Loop \/ Sleep \/ Flask

Spec == Init /\ [][Next]_vars

\* main() alone, with no remote request served
NextLoop == Loop \/ Sleep

SpecLoop == Init /\ [][NextLoop]_vars

\* The loop of main() picked up after a first reading (lines 404-415) below
\* YELLOWING's max_temp, so that the first stage is entered with room to its
\* maximum.
InitRamp ==
  /\ current_mode = "AUTO"
  /\ current_stage_index = 0
  /\ stage_start_time = StartTime
  /\ temperature \in FirstTemps
  /\ humidity \in Hums
  /\ stage_start_temp = temperature
  /\ auto_target_temp = stage_start_temp + 1
  /\ fan_on = FALSE
  /\ dehumidifier_on = FALSE
  /\ heater_on = FALSE
  /\ buzzer_on = FALSE
  /\ last_mode_press = 0
  /\ last_stage_press = 0
  /\ last_fan_press = 0
  /\ last_dehumidifier_press = 0
  /\ mode_button_pressed = FALSE
  /\ stage_button_pressed = FALSE
  /\ fan_button_pressed = FALSE
  /\ dehumidifier_button_pressed = FALSE
  /\ stage_name = 0
  /\ loaded_mode = "AUTO"
  /\ loaded_stage = 0
  /\ read_result = "pending"
  /\ pc = "buttons"
  /\ relay = [fan |-> FALSE, dehumidifier |-> FALSE, heater |-> FALSE,
              buzzer |-> FALSE]
  /\ hpc = "idle"
  /\ h_mode = "AUTO"
  /\ h_stage = 0
  /\ now = StartTime
  /\ inputs = 0
  /\ occ_target = None

SpecRamp == InitRamp /\ [][NextLoop]_vars

(* ----------------- the button guards at a free sample spacing ---------- *)

\* The loop of rpi4_tobacco_curing.py with its samples PaceSteps apart
\* instead of the 0.5 s or more of line 535: with the shipped sleep two
\* samples of a button are never less than DEBOUNCE apart, so the rejecting
\* branch of the guards is exercised here.  main() runs alone, and is picked
\* up in either mode: the Flask thread is started before main() (lines
\* 545-549), so a POST /api/mode may have been served before the first
\* iteration.
InitDebounce ==
  /\ current_mode \in {"AUTO", "MANUAL"}
  /\ current_stage_index = 0
  /\ stage_start_time = StartTime
  /\ temperature \in Temps
  /\ humidity \in Hums
  /\ stage_start_temp = temperature
  /\ auto_target_temp = stage_start_temp + 1
  /\ fan_on = FALSE
  /\ dehumidifier_on = FALSE
  /\ heater_on = FALSE
  /\ buzzer_on = FALSE
  /\ last_mode_press = 0
  /\ last_stage_press = 0
  /\ last_fan_press = 0
  /\ last_dehumidifier_press = 0
  /\ mode_button_pressed = FALSE
  /\ stage_button_pressed = FALSE
  /\ fan_button_pressed = FALSE
  /\ dehumidifier_button_pressed = FALSE
  /\ stage_name = 0
  /\ loaded_mode = "AUTO"
  /\ loaded_stage = 0
  /\ read_result = "pending"
  /\ pc = "buttons"
  /\ relay = [fan |-> FALSE, dehumidifier |-> FALSE, heater |-> FALSE,
              buzzer |-> FALSE]
  /\ hpc = "idle"
  /\ h_mode = "AUTO"
  /\ h_stage = 0
  /\ now = StartTime
  /\ inputs = 0
  /\ occ_target = None

Pace ==
  /\ pc = "sleep"
  /\ \E d \in PaceSteps :
       /\ now + d <= StartTime + MaxPace
       /\ now' = now + d
  /\ read_result' = "pending"
  /\ pc' = "buttons"
  /\ UNCHANGED << globals, presses, buttons, stage_name, loaded_mode,
                  loaded_stage, relay, handler, inputs, occ_target >>

NextDebounce ==
  \/ ReadButtons \/ ModeSwitch \/ ModeStore \/ StageAdvance \/ StageStore
  \/ SensorRead \/ Control \/ Target \/ Phase \/ Manual \/ UpdateOutputs
  \/ Pace

SpecDebounce == InitDebounce /\ [][NextDebounce]_vars

(* ----------------- 222.py ---------------------------------------------- *)

\* The state in which main() of 222.py enters its while loop: temperature
\* and humidity are locals not yet assigned, and there is no ramp.
Init222 ==
  /\ current_mode = "AUTO"
  /\ current_stage_index = 0
  /\ stage_start_time = StartTime
  /\ temperature = None
  /\ humidity = None
  /\ stage_start_temp = None
  /\ auto_target_temp = None
  /\ fan_on = FALSE
  /\ dehumidifier_on = FALSE
  /\ heater_on = FALSE
  /\ buzzer_on = FALSE
  /\ last_mode_press = 0
  /\ last_stage_press = 0
  /\ last_fan_press = 0
  /\ last_dehumidifier_press = 0
  /\ mode_button_pressed = FALSE
  /\ stage_button_pressed = FALSE
  /\ fan_button_pressed = FALSE
  /\ dehumidifier_button_pressed = FALSE
  /\ stage_name = 0
  /\ loaded_mode = "AUTO"
  /\ loaded_stage = 0
  /\ read_result = "pending"
  /\ pc = "buttons"
  /\ relay = [fan |-> FALSE, dehumidifier |-> FALSE, heater |-> FALSE,
              buzzer |-> FALSE]
  /\ hpc = "idle"
  /\ h_mode = "AUTO"
  /\ h_stage = 0
  /\ now = StartTime
  /\ inputs = 0
  /\ occ_target = None

\* 222.py lines 163-166
ReadButtons222 ==
  /\ pc = "buttons"
  /\ \E m, s, f, d \in BOOLEAN :
       /\ inputs + Asserted(m, s, f, d) <= MaxInputs
       /\ mode_button_pressed' = m
       /\ stage_button_pressed' = s
       /\ fan_button_pressed' = f
       /\ dehumidifier_button_pressed' = d
       /\ inputs' = inputs + Asserted(m, s, f, d)
  /\ pc' = "mode_switch"
  /\ UNCHANGED << globals, presses, locals, relay, handler, now, occ_target >>

\* 222.py lines 169-172
ModeSwitch222 ==
  /\ pc = "mode_switch"
  /\ IF Accepted(mode_button_pressed, now, last_mode_press)
       THEN /\ last_mode_press' = now
            /\ current_mode' = Toggle(current_mode)
       ELSE UNCHANGED << last_mode_press, current_mode >>
  /\ mode_button_pressed' = FALSE
  /\ pc' = "sensor"
  /\ UNCHANGED << current_stage_index, stage_start_time, stage_start_temp,
                  auto_target_temp, fan_on, dehumidifier_on, heater_on,
                  buzzer_on, temperature, humidity, last_stage_press,
                  last_fan_press, last_dehumidifier_press,
                  stage_button_pressed, fan_button_pressed,
                  dehumidifier_button_pressed, locals, relay, handler, now,
                  inputs, occ_target >>

\* what is left of the iteration of 222.py when the read gave nothing
SkipIteration222 ==
  /\ stage_button_pressed' = FALSE
  /\ fan_button_pressed' = FALSE
  /\ dehumidifier_button_pressed' = FALSE
  /\ pc' = "sleep"

\* 222.py lines 176-180
SensorRead222 ==
  /\ pc = "sensor"
  /\ \/ \* line 176 raises
        /\ read_result' = "error"
        /\ SkipIteration222
        /\ UNCHANGED << temperature, humidity, stage_name >>
     \/ \* line 176 returns, line 177 raises
        /\ temperature' \in Temps222 \cup {None}
        /\ read_result' = "error"
        /\ SkipIteration222
        /\ UNCHANGED << humidity, stage_name >>
     \/ \* both return: line 178 decides
        /\ temperature' \in Temps222 \cup {None}
        /\ humidity' \in Hums222 \cup {None}
        /\ IF Valid(temperature', humidity')
             THEN /\ read_result' = "ok"
                  /\ stage_name' = current_stage_index
                  /\ pc' = "control"
                  /\ UNCHANGED << stage_button_pressed, fan_button_pressed,
                                  dehumidifier_button_pressed >>
             ELSE /\ read_result' = "none"
                  /\ SkipIteration222
                  /\ UNCHANGED stage_name
  /\ UNCHANGED << current_mode, current_stage_index, stage_start_time,
                  stage_start_temp, auto_target_temp, fan_on,
                  dehumidifier_on, heater_on, buzzer_on, presses,
                  mode_button_pressed, loaded_mode, loaded_stage, relay,
                  handler, now, inputs, occ_target >>

\* 222.py lines 183-192: AUTO mode
Auto222 ==
  /\ pc = "control"
  /\ current_mode = "AUTO"
  /\ LET sp == Setpoints222(stage_name) IN
       /\ IF DurationOver(now, stage_start_time, sp.duration_hours)
            THEN /\ current_stage_index' = NextStage(current_stage_index)
                 /\ stage_start_time' = now
            ELSE UNCHANGED << current_stage_index, stage_start_time >>
       /\ heater_on' = HeaterCommand(temperature, sp)
       /\ dehumidifier_on' = DehumidifierCommand(humidity, sp)
       /\ fan_on' = FanCommand(dehumidifier_on', sp)
  /\ UNCHANGED << last_stage_press, last_fan_press, last_dehumidifier_press >>

\* 222.py lines 193-208: MANUAL mode
Manual222 ==
  /\ pc = "control"
  /\ current_mode # "AUTO"
  /\ IF Accepted(stage_button_pressed, now, last_stage_press)
       THEN /\ last_stage_press' = now
            /\ current_stage_index' = NextStage(current_stage_index)
            /\ stage_start_time' = now
       ELSE UNCHANGED << last_stage_press, current_stage_index,
                         stage_start_time >>
  /\ IF Accepted(fan_button_pressed, now, last_fan_press)
       THEN last_fan_press' = now /\ fan_on' = ~fan_on
       ELSE UNCHANGED << last_fan_press, fan_on >>
  /\ IF Accepted(dehumidifier_button_pressed, now, last_dehumidifier_press)
       THEN last_dehumidifier_press' = now
            /\ dehumidifier_on' = ~dehumidifier_on
       ELSE UNCHANGED << last_dehumidifier_press, dehumidifier_on >>
  /\ heater_on' = HeaterCommand(temperature, Setpoints222(stage_name))

\* 222.py lines 183-208
Control222 ==
  /\ Auto222 \/ Manual222
  /\ stage_button_pressed' = FALSE
  /\ fan_button_pressed' = FALSE
  /\ dehumidifier_button_pressed' = FALSE
  /\ pc' = "relays"
  /\ UNCHANGED << current_mode, stage_start_temp, auto_target_temp,
                  buzzer_on, temperature, humidity, last_mode_press,
                  mode_button_pressed, locals, relay, handler, now, inputs,
                  occ_target >>

\* 222.py line 211: update_relays
UpdateOutputs222 ==
  /\ pc = "relays"
  /\ relay' = [relay EXCEPT !.heater = heater_on,
                            !.dehumidifier = dehumidifier_on,
                            !.fan = fan_on]
  /\ pc' = "sleep"
  /\ UNCHANGED << globals, presses, buttons, locals, handler, now, inputs,
                  occ_target >>

\* 222.py line 223: time.sleep(0.5)
Sleep222 ==
  /\ pc = "sleep"
  /\ now' \in { t \in Instants222 : t >= now + SLEEP }
  /\ read_result' = "pending"
  /\ pc' = "buttons"
  /\ UNCHANGED << globals, presses, buttons, stage_name, loaded_mode,
                  loaded_stage, relay, handler, inputs, occ_target >>

Next222 ==
  \/ ReadButtons222 \/ ModeSwitch222 \/ SensorRead222 \/ Control222
  \/ UpdateOutputs222 \/ Sleep222

Spec222 == Init222 /\ [][Next222]_vars

(* ----------------- the loops left alone, for ever ----------------------- *)

\* main() of rpi4_tobacco_curing.py in AUTO mode with no button ever
\* asserted and no request served: no input is left to follow.
InitCycle ==
  /\ current_mode = "AUTO"
  /\ current_stage_index = 0
  /\ stage_start_time = StartTime
  /\ temperature \in Temps
  /\ humidity \in Hums
  /\ stage_start_temp = temperature
  /\ auto_target_temp = stage_start_temp + 1
  /\ fan_on = FALSE
  /\ dehumidifier_on = FALSE
  /\ heater_on = FALSE
  /\ buzzer_on = FALSE
  /\ last_mode_press = 0
  /\ last_stage_press = 0
  /\ last_fan_press = 0
  /\ last_dehumidifier_press = 0
  /\ mode_button_pressed = FALSE
  /\ stage_button_pressed = FALSE
  /\ fan_button_pressed = FALSE
  /\ dehumidifier_button_pressed = FALSE
  /\ stage_name = 0
  /\ loaded_mode = "AUTO"
  /\ loaded_stage = 0
  /\ read_result = "pending"
  /\ pc = "buttons"
  /\ relay = [fan |-> FALSE, dehumidifier |-> FALSE, heater |-> FALSE,
              buzzer |-> FALSE]
  /\ hpc = "idle"
  /\ h_mode = "AUTO"
  /\ h_stage = 0
  /\ now = StartTime
  /\ inputs = MaxInputs
  /\ occ_target = None

\* time.sleep(0.5) with the clock counted from the entry of the running
\* stage: time.time() is read only in differences to stage_start_time (the
\* buttons are never asserted here), so the stage's entry is kept at
\* StartTime and the clock at StartTime plus the time spent in the stage.
SleepCycle ==
  /\ pc = "sleep"
  /\ \E e \in CycleElapsed :
       /\ e >= (now - stage_start_time) + SLEEP
       /\ now' = StartTime + e
  /\ stage_start_time' = StartTime
  /\ read_result' = "pending"
  /\ pc' = "buttons"
  /\ UNCHANGED << current_mode, current_stage_index, stage_start_temp,
                  auto_target_temp, fan_on, dehumidifier_on, heater_on,
                  buzzer_on, temperature, humidity, presses, buttons,
                  stage_name, loaded_mode, loaded_stage, relay, handler,
                  inputs, occ_target >>

NextCycle ==
  \/ ReadButtons \/ ModeSwitch \/ StageAdvance \/ SensorRead \/ Control
  \/ AutoStore \/ Target \/ Phase \/ UpdateOutputs \/ SleepCycle

\* while True: the loop never ends and time.sleep returns, so the next
\* statement of main() is always executed in the end
SpecCycle == InitCycle /\ [][NextCycle]_vars /\ WF_vars(NextCycle)

\* main() of 222.py left alone in the same way
InitCycle222 ==
  /\ current_mode = "AUTO"
  /\ current_stage_index = 0
  /\ stage_start_time = StartTime
  /\ temperature = None
  /\ humidity = None
  /\ stage_start_temp = None
  /\ auto_target_temp = None
  /\ fan_on = FALSE
  /\ dehumidifier_on = FALSE
  /\ heater_on = FALSE
  /\ buzzer_on = FALSE
  /\ last_mode_press = 0
  /\ last_stage_press = 0
  /\ last_fan_press = 0
  /\ last_dehumidifier_press = 0
  /\ mode_button_pressed = FALSE
  /\ stage_button_pressed = FALSE
  /\ fan_button_pressed = FALSE
  /\ dehumidifier_button_pressed = FALSE
  /\ stage_name = 0
  /\ loaded_mode = "AUTO"
  /\ loaded_stage = 0
  /\ read_result = "pending"
  /\ pc = "buttons"
  /\ relay = [fan |-> FALSE, dehumidifier |-> FALSE, heater |-> FALSE,
              buzzer |-> FALSE]
  /\ hpc = "idle"
  /\ h_mode = "AUTO"
  /\ h_stage = 0
  /\ now = StartTime
  /\ inputs = MaxInputs
  /\ occ_target = None

NextCycle222 ==
  \/ ReadButtons222 \/ ModeSwitch222 \/ SensorRead222 \/ Control222
  \/ UpdateOutputs222 \/ SleepCycle

SpecCycle222 == InitCycle222 /\ [][NextCycle222]_vars /\ WF_vars(NextCycle222)

(* ======================= the claims ==================================== *)

Min(a, b) == IF a <= b THEN a ELSE b

\* the step of the loop that ends the AUTO computation of lines 477-502
PhaseStep == pc = "phase" /\ pc' = "relays"

(* C1: in every reachable state, whatever the interleaving of loop         *)
(* iterations, accepted button events and the handlers of /api/mode and    *)
(* /api/stage, the mode is AUTO or MANUAL and the stage index is one of    *)
(* 0 .. N-1, with N = 4.                                                   *)
C1_ModeAndStageValid ==
  /\ current_mode \in {"AUTO", "MANUAL"}
  /\ current_stage_index \in 0..(N - 1)
  /\ N = 4

\* the stage index has wrapped from the last stage to stage 0 at 48 hours
C1_Witness ==
  /\ current_stage_index = 0
  /\ stage_start_time = StartTime + 48 * HOUR
  /\ inputs = MaxInputs

(* C2: at the end of an iteration whose sensor read failed (an exception,  *)
(* or a None), fan, dehumidifier and heater are OFF, as logical states and *)
(* as relay outputs, and the alarm is not asserted.                        *)
C2_FaultForcesOff ==
  (pc = "sleep" /\ read_result \in {"error", "none"}) =>
    /\ ~fan_on /\ ~dehumidifier_on /\ ~heater_on
    /\ ~relay.fan /\ ~relay.dehumidifier /\ ~relay.heater
    /\ ~buzzer_on /\ ~relay.buzzer

(* C3: every AUTO computation with a valid reading leaves the target at    *)
(* min(stage_start_temp + 1 + floor(elapsed / 3600 s), max_temp of the     *)
(* iteration's stage), elapsed being the time since stage_start_time; for  *)
(* entry 45 and maximum 55 that is 46 at elapsed 0 and 55 at 36000 s.      *)
C3_TargetIsClampedRamp ==
  [][ PhaseStep =>
        LET elapsed == now - stage_start_time
            max == Setpoints(stage_name).max_temp
        IN  /\ auto_target_temp' =
                 Min(stage_start_temp + 1 + (elapsed \div HOUR), max)
            /\ (stage_start_temp = 45 /\ max = 55 /\ elapsed = 0)
                 => auto_target_temp' = 46
            /\ (stage_start_temp = 45 /\ max = 55 /\ elapsed = 10 * HOUR)
                 => auto_target_temp' = 55 ]_vars

\* LEAF_DRYING entered at 45 degrees, ten hours later: the maintenance phase
C3_Witness ==
  /\ pc = "relays"
  /\ read_result = "ok"
  /\ stage_name = 1
  /\ stage_start_temp = 45
  /\ now - stage_start_time = 10 * HOUR
  /\ auto_target_temp = 55
  /\ occ_target = 55

(* C4: between two AUTO computations with no stage transition in between   *)
(* the target does not decrease, and it is never above the stage's         *)
(* max_temp; entry 40 and maximum 55 give 42 after exactly 3600 s.         *)
C4_TargetMonotoneAndBounded ==
  [][ PhaseStep =>
        LET elapsed == now - stage_start_time
            max == Setpoints(stage_name).max_temp
        IN  /\ occ_target # None => auto_target_temp' >= occ_target
            /\ auto_target_temp' <= max
            /\ (stage_start_temp = 40 /\ max = 55 /\ elapsed = HOUR)
                 => auto_target_temp' = 42 ]_vars

\* LEAF_DRYING entered at 40 degrees: the target was 41 and, one hour after
\* entry, the second computation has just stored 42
C4_Witness ==
  /\ pc = "phase"
  /\ stage_name = 1
  /\ stage_start_temp = 40
  /\ now - stage_start_time = HOUR
  /\ occ_target = 41
  /\ auto_target_temp = 42

(* C5: for each button, an asserted sample taken less than 0.2 s after an  *)
(* accepted sample of the same button is rejected: the guard leaves the    *)
(* button's timestamp and the state the button controls as they were (the  *)
(* mode and the stage are not even loaded for a store).                    *)
C5_SecondSampleRejected ==
  [][ /\ ( /\ pc = "mode_switch" /\ pc' # pc
           /\ mode_button_pressed
           /\ now - last_mode_press < DEBOUNCE )
          => /\ UNCHANGED << last_mode_press, current_mode >>
             /\ pc' = "stage_adv"
      /\ ( /\ pc = "stage_adv" /\ pc' # pc
           /\ stage_button_pressed
           /\ now - last_stage_press < DEBOUNCE )
          => /\ UNCHANGED << last_stage_press, current_stage_index,
                             stage_start_time, stage_start_temp >>
             /\ pc' = "sensor"
      /\ ( /\ pc = "manual" /\ pc' # pc
           /\ fan_button_pressed
           /\ now - last_fan_press < DEBOUNCE )
          => UNCHANGED << last_fan_press, fan_on >>
      /\ ( /\ pc = "manual" /\ pc' # pc
           /\ dehumidifier_button_pressed
           /\ now - last_dehumidifier_press < DEBOUNCE )
          => UNCHANGED << last_dehumidifier_press, dehumidifier_on >>
    ]_vars

\* MANUAL mode: the fan button was accepted (the fan is ON), its next
\* sample, 0.1 s later, is asserted again and has reached the guard
C5_Witness ==
  /\ pc = "manual"
  /\ fan_button_pressed
  /\ now - last_fan_press = 1
  /\ fan_on
  /\ hpc = "idle"

(* C6: a press that stays asserted over consecutive iterations of the      *)
(* loop gives one event: the sample of the iteration that follows an       *)
(* accepted sample, SLEEP later, is not accepted again.                    *)
C6_HeldPressOneEvent ==
  [][ /\ ( /\ pc = "mode_switch" /\ pc' # pc
           /\ mode_button_pressed
           /\ now - last_mode_press = SLEEP )
          => /\ UNCHANGED last_mode_press
             /\ pc' = "stage_adv"
      /\ ( /\ pc = "stage_adv" /\ pc' # pc
           /\ stage_button_pressed
           /\ now - last_stage_press = SLEEP )
          => /\ UNCHANGED last_stage_press
             /\ pc' = "sensor"
    ]_vars

(* C7: every stage advance (the store of the stage button, of the          *)
(* automatic advance, of set_stage) takes the stage index from its value i *)
(* to (i + 1) mod N.                                                       *)
C7_AdvanceIsSuccessor ==
  [][ ( \/ pc = "stage_store" /\ pc' # pc
        \/ pc = "auto_store" /\ pc' # pc
        \/ hpc = "set_stage" /\ hpc' # hpc )
      => current_stage_index' = NextStage(current_stage_index) ]_vars

(* C8: in AUTO mode (222.py, the variant with a heater), once an earlier   *)
(* iteration has commanded the outputs (the dehumidifier is ON, which only *)
(* a completed iteration does) and left the heater OFF, a reading inside   *)
(* the dead-band [target - 2, target] leaves the heater OFF.               *)
C8_DeadbandKeepsHeaterOff ==
  [][ ( /\ pc = "control" /\ pc' = "relays"
        /\ current_mode = "AUTO"
        /\ dehumidifier_on
        /\ temperature >= Setpoints222(stage_name).temp - DEADBAND
        /\ temperature <= Setpoints222(stage_name).temp
        /\ ~heater_on )
      => ~heater_on' ]_vars

(* C9: in AUTO mode, on an iteration with a valid reading, the relay that  *)
(* regulates the temperature is ON afterwards when reading < target - 2    *)
(* and OFF afterwards when reading > target.                               *)
C9_OffEdgeIsTarget ==
  [][ PhaseStep =>
        /\ temperature < auto_target_temp' - DEADBAND => dehumidifier_on'
        /\ temperature > auto_target_temp' => ~dehumidifier_on' ]_vars

(* C10: every change of the stage index sets stage_start_time to the       *)
(* current time and stage_start_temp to the last reading, or to the new    *)
(* stage's min_temp when there is no reading.                              *)
C10_AdvanceResetsEntry ==
  [][ current_stage_index' # current_stage_index =>
        /\ stage_start_time' = now
        /\ stage_start_temp' =
             IF temperature # None THEN temperature
             ELSE Setpoints(current_stage_index').min_temp ]_vars

(* C11: the automatic advance is taken only in AUTO mode, and it is taken  *)
(* on every AUTO iteration with a valid reading at which the time since    *)
(* stage_start_time is at least the stage's duration, equality included.   *)
C11_AutoAdvanceAtDuration ==
  [][ (pc = "control" /\ pc' # pc) =>
        LET due == now - stage_start_time
                     >= Setpoints(stage_name).duration_hours * HOUR
        IN  /\ (current_mode = "AUTO" /\ due) => pc' = "auto_store"
            /\ pc' = "auto_store" => (current_mode = "AUTO" /\ due) ]_vars

(* C12: a change of the mode (mode button or set_mode) leaves the stage    *)
(* index as it was, sets stage_start_time to the current time and          *)
(* stage_start_temp to the current reading.                                *)
C12_ModeToggleResetsEntry ==
  [][ current_mode' # current_mode =>
        /\ UNCHANGED current_stage_index
        /\ stage_start_time' = now
        /\ temperature # None => stage_start_temp' = temperature ]_vars

(* C13: an iteration of 222.py that runs its control block in MANUAL mode  *)
(* commands the heater OFF, whatever the reading and the setpoint.         *)
C13_ManualHeaterOff ==
  [][ (pc = "control" /\ pc' = "relays" /\ current_mode # "AUTO")
        => ~heater_on' ]_vars

(* C14: while the mode is AUTO, fan_on and dehumidifier_on change only in  *)
(* the step of the control law (lines 483-502): no button sample and no    *)
(* remote toggle changes them.                                             *)
C14_TogglesOnlyInManual ==
  [][ (current_mode = "AUTO" /\ ~PhaseStep)
        => UNCHANGED << fan_on, dehumidifier_on >> ]_vars

(* C15: after the AUTO computation of an iteration with a valid reading    *)
(* the dehumidifier is ON exactly if the humidity reading is above the     *)
(* humidity setpoint of the stage.                                         *)
C15_DehumidifierFollowsHumidity ==
  [][ PhaseStep =>
        (dehumidifier_on' <=> humidity > Setpoints(stage_name).humidity)
    ]_vars

(* C16: in the AUTO computation, while the computed target is below the    *)
(* stage's max_temp the fan gets the stage's ramp_fan_on flag; once it has *)
(* reached max_temp the target is pinned there and the fan is turned ON    *)
(* below target - 2, turned OFF above target + 2 and left as it was in     *)
(* between.                                                                *)
C16_FanRampOrHysteresis ==
  [][ PhaseStep =>
        LET sp == Setpoints(stage_name) IN
          IF auto_target_temp < sp.max_temp
            THEN fan_on' = sp.ramp_fan_on
            ELSE /\ auto_target_temp' = sp.max_temp
                 /\ temperature < sp.max_temp - DEADBAND => fan_on'
                 /\ temperature > sp.max_temp + DEADBAND => ~fan_on'
                 /\ ( /\ temperature >= sp.max_temp - DEADBAND
                      /\ temperature <= sp.max_temp + DEADBAND )
                      => fan_on' = fan_on ]_vars

\* YELLOWING (ramp_fan_on false) pinned at its maximum of 40: the fan was
\* ON at the end of the previous iteration and a reading of 40, inside the
\* band, has left it ON
C16_Witness ==
  /\ pc = "relays"
  /\ read_result = "ok"
  /\ current_mode = "AUTO"
  /\ now > StartTime
  /\ stage_name = 0
  /\ auto_target_temp = 40
  /\ temperature = 40
  /\ relay.fan
  /\ fan_on

(* C17: the alarm of an AUTO iteration with a valid reading is raised      *)
(* exactly when the reading is more than the band (the controller's 2      *)
(* degrees) away from the current target temperature.                      *)
C17_AlarmCentredOnTarget ==
  [][ (pc = "relays" /\ pc' # pc /\ current_mode = "AUTO") =>
        ( buzzer_on' <=>
            ~ ( /\ auto_target_temp - DEADBAND <= temperature
                /\ temperature <= auto_target_temp + DEADBAND ) )
    ]_vars

(* C18: at the end of an iteration whose sensor read failed, the record    *)
(* of GET /api/status shows the fault (it has no fault field: the one      *)
(* trace a failed read can leave in it is a reading of None).              *)
C18_FaultSurfaces ==
  (pc = "sleep" /\ read_result \in {"error", "none"}) =>
    (get_status.temperature = None \/ get_status.humidity = None)

(* C19: between the button sampling of an iteration and its sleep, no      *)
(* step other than the loop's own changes the mode, the stage index, or    *)
(* the fan and dehumidifier states.                                        *)
C19_NoWriteInsideTick ==
  [][ (pc \notin {"buttons", "sleep"} /\ pc' = pc) =>
        UNCHANGED << current_mode, current_stage_index, fan_on,
                     dehumidifier_on >> ]_vars

(* C20: in 222.py, an asserted sample of the stage button that passes the  *)
(* debounce test advances the stage, in AUTO mode as in MANUAL mode.       *)
C20_StageButtonAnyMode ==
  [][ ( /\ pc = "control" /\ pc' = "relays"
        /\ stage_button_pressed
        /\ now - last_stage_press > DEBOUNCE )
      => current_stage_index' = NextStage(current_stage_index) ]_vars

(* C21: a read that returns two values right after a faulted iteration     *)
(* (the stored reading is still None) enters the control block like any    *)
(* other, and the control block runs its whole path, mode test and stage   *)
(* check, target, actuator states, relay outputs, with no step in between. *)
C21_FaultNotSticky ==
  [][ /\ ( /\ pc = "sensor"
           /\ temperature = None \/ humidity = None
           /\ temperature' # None /\ humidity' # None
           /\ read_result' # "error" )
          => /\ read_result' = "ok"
             /\ pc' = "control"
             /\ stage_name' = current_stage_index
      /\ (pc = "control" /\ pc' # pc)
          => pc' \in {"auto_store", "target", "manual", "relays"}
      /\ (pc = "auto_store" /\ pc' # pc) => pc' = "target"
      /\ (pc = "target" /\ pc' # pc) => pc' = "phase"
      /\ (pc \in {"phase", "manual"} /\ pc' # pc) => pc' = "relays"
      /\ (pc = "relays" /\ pc' # pc)
          => /\ pc' = "sleep"
             /\ relay'.fan = fan_on
             /\ relay'.dehumidifier = dehumidifier_on
             /\ relay'.buzzer = buzzer_on'
    ]_vars

\* The iteration before returned None for the temperature; this one took
\* the stage button in AUTO mode while the reading was still None (the
\* entry temperature is MIDRIB_DRYING's min_temp, which no reading equals),
\* then read two values and ran to its end.
C21_Witness ==
  /\ pc = "sleep"
  /\ read_result = "ok"
  /\ current_mode = "AUTO"
  /\ current_stage_index = 2
  /\ stage_start_time = now
  /\ stage_start_temp = Setpoints(2).min_temp
  /\ temperature # None

(* C22: a failed read, one that raises or returns None, made while both    *)
(* stored values are readings, leaves temperature and humidity as they     *)
(* were: neither becomes None and neither changes alone.                   *)
C22_FailedReadKeepsReading ==
  [][ ( /\ pc = "sensor"
        /\ read_result' \in {"error", "none"}
        /\ temperature # None /\ humidity # None )
      => (temperature' = temperature /\ humidity' = humidity)
    ]_vars

(* C23: whenever an iteration of the loop ends, by update_relays and the   *)
(* buzzer or by the except clause, the driven fan and dehumidifier outputs *)
(* equal fan_on and dehumidifier_on.                                       *)
C23_OutputsFollowStates ==
  [][ (pc # "sleep" /\ pc' = "sleep")
      => /\ relay'.fan = fan_on'
         /\ relay'.dehumidifier = dehumidifier_on'
    ]_vars

(* C24: in a stage whose ramp_fan_on is False the AUTO target does not     *)
(* change with elapsed time.  Followed through the first stage, YELLOWING: *)
(* every computation of the target gives the value of the one before.      *)
C24_NoRampTargetFixed ==
  [][ ( /\ PhaseStep
        /\ ~Setpoints(stage_name).ramp_fan_on
        /\ current_stage_index = 0 /\ stage_name = 0
        /\ stage_start_time = StartTime
        /\ occ_target # None )
      => auto_target_temp' = occ_target
    ]_vars

(* C25: with the loop left alone in AUTO mode, if reads succeed again and  *)
(* again then every stage of the cycle is the running stage again and      *)
(* again: each stage is left, and there is no last one.                    *)
C25_EveryStageLeft ==
  ([]<>(read_result = "ok"))
    => \A i \in 0 .. N - 1 : []<>(current_stage_index = i)

\* YELLOWING entered by an automatic advance: the cycle has gone round
C25_Witness ==
  /\ current_mode = "AUTO"
  /\ current_stage_index = 0
  /\ stage_start_time = now
  /\ now > StartTime
  /\ read_result = "ok"

(* C26: every accepted mode toggle, the store of the mode button (line     *)
(* 440) and the store of set_mode (line 59) alike, flips current_mode: the *)
(* mode is AUTO after an even number of them and MANUAL after an odd one.  *)
C26_NoLostToggle ==
  [][ ( \/ pc = "mode_store" /\ pc' # pc
        \/ hpc = "set_mode" /\ hpc' # hpc )
      => current_mode' = Toggle(current_mode) ]_vars

(* C27: once the loop has computed a target for the running stage, every  *)
(* record of get_status taken in AUTO mode has target_temp <= max_temp.    *)
C27_StatusTargetWithinMax ==
  (occ_target # None /\ get_status.mode = "AUTO")
    => get_status.target_temp <= get_status.max_temp

====
